---- MODULE Spec2Model ----
(***************************************************************************)
(* DropClone backend (src/backend/server.js): the Express routes, the     *)
(* authenticateToken middleware, the multer-s3 storage and the handlers'  *)
(* calls on the DynamoDB table, the S3 bucket and the Cognito user pool.  *)
(* Every await of a handler is a step boundary: other requests may run    *)
(* between two steps of one request.                                      *)
(***************************************************************************)
EXTENDS Integers, Sequences, FiniteSets, TLC

(***************************************************************************)
(* Bounds of the model.                                                    *)
(***************************************************************************)
\* download requests accepted in one run (caps downloadCount)
MaxDownloads == 2

(***************************************************************************)
(* Inputs.                                                                 *)
(***************************************************************************)
\* Lexicographic order of the uuid strings: DynamoDB sorts the sort key
\* fileId (a string) by its bytes.
IdOrder == <<"id0", "id1", "id2">>

\* The values uuidv4() returns to the upload handler.
UUIDs == {"id1", "id2"}

\* The values uuidv4() returns to multer-s3's key callback.  uuidv4() does
\* not return a value twice, so they are none of the handler's; nothing
\* orders or compares them, so the callback is given them in this order.
KeyOrder == <<"k1", "k2">>

KeyUUIDs == {"k1", "k2"}

KeyRank(id) == CHOOSE i \in 1..Len(KeyOrder) : KeyOrder[i] = id

\* An id that no uuidv4() call returns: what a client asks for when it
\* addresses a file that was never uploaded.
UnknownId == IdOrder[1]

PathIds == UUIDs \cup {UnknownId}

IdRank(id) == CHOOSE i \in 1..Len(IdOrder) : IdOrder[i] = id

Users == {"ua", "ub"}

\* The user whose view the isolation check follows.
Observed == "ua"

Slots == {"r1", "r2"}

\* The clients that keep a signed URL, one each.
Holders == {"c1", "c2"}

SlotOrder == <<"r1", "r2">>

SlotRank(r) == CHOOSE i \in 1..Len(SlotOrder) : SlotOrder[i] = r

\* Multipart bodies: the uploaded file as multer hands it over, or none.
NoFile == [originalname |-> "", size |-> 0, mimetype |-> ""]

Files == {[originalname |-> "a.txt", size |-> 1, mimetype |-> "text/plain"],
          [originalname |-> "b.png", size |-> 2, mimetype |-> "image/png"]}

\* Request lines: the method and the path below /api, one string per path
\* segment.  Those of the registered routes, and some that match none.
Request(m, p) == [method |-> m, path |-> p]

Requests ==
    {Request("POST", <<"files", "upload">>), Request("GET", <<"files">>),
     Request("GET", <<"stats">>), Request("GET", <<"health">>)}
    \cup {Request("GET", <<"files", f>>) : f \in PathIds}
    \cup {Request("GET", <<"files", "download", f>>) : f \in PathIds}
    \cup {Request("GET", <<"files", f, "versions">>) : f \in PathIds}
    \cup {Request("DELETE", <<"files", f>>) : f \in PathIds}
    \cup {Request("POST", <<"files", "share", f>>) : f \in PathIds}
    \cup {Request("POST", <<"files", "unshare", f>>) : f \in PathIds}
    \cup {Request("PUT", <<"files", UnknownId>>),
          Request("GET", <<"files", "a", "b", "c">>),
          Request("DELETE", <<"files">>),
          Request("POST", <<"files", "download", UnknownId>>)}

\* The request lines of the authentication routes.
AuthRequests ==
    {Request("POST", <<"auth", "register">>), Request("POST", <<"auth", "login">>),
     Request("POST", <<"auth", "verify">>),
     Request("POST", <<"auth", "resend-verification">>)}

\* Authorization header values, as the words split(' ') yields; <<>> is an
\* absent header.
Headers == {<<>>, <<"Bearer">>, <<"Bearer", "ta">>, <<"Bearer", "tb">>,
            <<"Bearer", "bad">>}

\* JSON bodies of a share request: without expiresIn, or with it (seconds).
NoBody == <<>>

Bodies == {NoBody, [expiresIn |-> 60]}

\* JSON bodies of the authentication requests: empty, or with every field
\* a route reads.  A user signs up under the email address as user name.
AuthBodies ==
    {NoBody, [email |-> "ua", password |-> "pw", name |-> "A", code |-> "123456"]}

(***************************************************************************)
(* Items of the table: functions from attribute names to values.  An      *)
(* attribute that is absent is not in the item's domain.                  *)
(***************************************************************************)
NoItem == <<>>

Has(item, a) == a \in DOMAIN item

SetAttr(item, a, v) ==
    [x \in (DOMAIN item) \cup {a} |-> IF x = a THEN v ELSE item[x]]

RemoveAttr(item, a) == [x \in (DOMAIN item) \ {a} |-> item[x]]

KeyItem(u, f) == [userId |-> u, fileId |-> f]

\* Date.prototype.toISOString of a time in milliseconds
toISOString(t) == [iso |-> t]

(***************************************************************************)
(* DynamoDB DocumentClient commands on the table (a set of items, at most *)
(* one per key (userId, fileId)).                                          *)
(***************************************************************************)
GetCommand(t, u, f) ==
    IF \E i \in t : i.userId = u /\ i.fileId = f
    THEN CHOOSE i \in t : i.userId = u /\ i.fileId = f
    ELSE NoItem

PutCommand(t, item) ==
    {i \in t : ~(i.userId = item.userId /\ i.fileId = item.fileId)} \cup {item}

DeleteCommand(t, u, f) == {i \in t : ~(i.userId = u /\ i.fileId = f)}

\* The item UpdateItem applies its update expression to: the one stored
\* under the key, or a new item holding the key attributes when there is
\* none.
UpdateBase(t, u, f) ==
    LET old == GetCommand(t, u, f)
    IN  IF old = NoItem THEN KeyItem(u, f) ELSE old

\* UpdateItem: in one atomic step of the table, the item under the key
\* becomes updated, what the update expression makes of UpdateBase.
UpdateCommand(t, u, f, updated) == DeleteCommand(t, u, f) \cup {updated}

\* The partition's items in descending order of the sort key
\* (ScanIndexForward: false).
RECURSIVE SortDesc(_)
SortDesc(items) ==
    IF items = {} THEN <<>>
    ELSE LET top == CHOOSE i \in items :
                        \A j \in items : IdRank(j.fileId) <= IdRank(i.fileId)
         IN  <<top>> \o SortDesc(items \ {top})

RECURSIVE SortAsc(_)
SortAsc(items) ==
    IF items = {} THEN <<>>
    ELSE LET low == CHOOSE i \in items :
                        \A j \in items : IdRank(j.fileId) >= IdRank(i.fileId)
         IN  <<low>> \o SortAsc(items \ {low})

QueryCommand(t, u, forward) ==
    LET part == {i \in t : i.userId = u}
    IN  IF forward THEN SortAsc(part) ELSE SortDesc(part)

(***************************************************************************)
(* The S3 bucket: the set of keys that hold an object.  A key is the      *)
(* sequence of the pieces its template string is put together from.       *)
(***************************************************************************)
\* `${req.userId}/${fileId}-${file.originalname}`
ObjectKey(u, id, name) == <<u, "/", id, "-", name>>

\* the Location and VersionId S3 reports for a stored object
Location(key) == <<"https://bucket/">> \o key

VersionId(key) == <<"v1:">> \o key

\* A property that holds undefined.
Undefined == <<>>

\* The attributes of a record that can hold undefined: a bucket without
\* versioning reports no VersionId for the object it stores.
Optional == {"versionId"}

HasUndefined(item) ==
    \E a \in (DOMAIN item) \cap Optional : item[a] = Undefined

RemoveUndefined(item) ==
    [a \in {x \in DOMAIN item : x \in Optional => item[x] # Undefined} |-> item[a]]

IsPrefix(p, k) == Len(p) <= Len(k) /\ SubSeq(k, 1, Len(p)) = p

DeleteObjectCommand(bucket, key) == bucket \ {key}

\* The item's s3Key as the handlers read it: result.Item.s3Key is
\* undefined for an item without the attribute.
HasKey(item) == Has(item, "s3Key")

\* Prefix is an optional parameter: left undefined, every key is listed.
ListObjectVersionsCommand(bucket, item) ==
    IF HasKey(item) THEN {k \in bucket : IsPrefix(item.s3Key, k)} ELSE bucket

(***************************************************************************)
(* The Cognito user pool: the access tokens it has issued.                 *)
(***************************************************************************)
TokenUser == [ta |-> "ua", tb |-> "ub"]

NoToken == ""

\* req.headers.authorization?.split(' ')[1]
TokenOf(hdr) == IF Len(hdr) >= 2 THEN hdr[2] ELSE NoToken

\* GetUserCommand: the user of a valid access token, or a rejection.
GetUserCommand(token) ==
    IF token \in DOMAIN TokenUser
    THEN [ok |-> TRUE, Username |-> TokenUser[token]]
    ELSE [ok |-> FALSE, Username |-> ""]

(***************************************************************************)
(* Express routing: the routes in registration order; a request is        *)
(* handled by the first route its method and path match, and by the 404   *)
(* handler when none does.                                                 *)
(***************************************************************************)
Routes == <<
    [method |-> "POST",   pattern |-> <<"auth", "register">>,           op |-> "register"],
    [method |-> "POST",   pattern |-> <<"auth", "login">>,              op |-> "login"],
    [method |-> "POST",   pattern |-> <<"auth", "verify">>,             op |-> "verify"],
    [method |-> "POST",   pattern |-> <<"auth", "resend-verification">>, op |-> "resend"],
    [method |-> "POST",   pattern |-> <<"files", "upload">>,            op |-> "upload"],
    [method |-> "GET",    pattern |-> <<"files">>,                      op |-> "list"],
    [method |-> "GET",    pattern |-> <<"files", ":fileId">>,           op |-> "get"],
    [method |-> "GET",    pattern |-> <<"files", "download", ":fileId">>, op |-> "download"],
    [method |-> "GET",    pattern |-> <<"files", ":fileId", "versions">>, op |-> "versions"],
    [method |-> "DELETE", pattern |-> <<"files", ":fileId">>,           op |-> "delete"],
    [method |-> "POST",   pattern |-> <<"files", "share", ":fileId">>,  op |-> "share"],
    [method |-> "POST",   pattern |-> <<"files", "unshare", ":fileId">>, op |-> "unshare"],
    [method |-> "GET",    pattern |-> <<"health">>,                     op |-> "health"],
    [method |-> "GET",    pattern |-> <<"stats">>,                      op |-> "stats"] >>

Matches(route, method, path) ==
    /\ route.method = method
    /\ Len(route.pattern) = Len(path)
    /\ \A i \in 1..Len(path) :
          route.pattern[i] = ":fileId" \/ route.pattern[i] = path[i]

\* The first route from the n-th on that matches, 0 when none does.
RECURSIVE FirstMatch(_, _, _)
FirstMatch(n, method, path) ==
    IF n > Len(Routes) THEN 0
    ELSE IF Matches(Routes[n], method, path) THEN n
    ELSE FirstMatch(n + 1, method, path)

Route(method, path) ==
    LET n == FirstMatch(1, method, path)
    IN  IF n = 0 THEN "notFound" ELSE Routes[n].op

\* req.params.fileId
ParamFileId(method, path) ==
    LET n   == FirstMatch(1, method, path)
        pat == IF n = 0 THEN <<>> ELSE Routes[n].pattern
    IN  IF \E i \in 1..Len(pat) : pat[i] = ":fileId"
        THEN path[CHOOSE i \in 1..Len(pat) : pat[i] = ":fileId"]
        ELSE ""

\* What Express makes of each request line: the handler (req.route) and
\* req.params.
Routed ==
    [rq \in Requests \cup AuthRequests |->
        [op     |-> Route(rq.method, rq.path),
         fileId |-> ParamFileId(rq.method, rq.path)]]

\* The list route registered without the middleware.
ProtectedButList(op) == op \in {"upload", "get", "download", "versions",
                                "delete", "share", "unshare", "stats"}

\* The authentication routes.
AuthOps == {"register", "login", "verify", "resend"}

\* The routes registered with the authenticateToken middleware.
Protected(op) == op \in {"upload", "list", "get", "download", "versions",
                         "delete", "share", "unshare", "stats"}

(***************************************************************************)
(* State.                                                                  *)
(***************************************************************************)
VARIABLES
    db,     \* the DynamoDB table: a set of items
    s3,     \* the S3 bucket: the keys that hold an object
    used,   \* the values uuidv4() has returned
    now,    \* Date.now(), in milliseconds
    reqs,   \* the requests in flight: per slot, the req object and the
            \* handler's position and locals
    resp,   \* the response the last step sent, NoResp when it sent none
    prev,   \* the key of the file a DELETE answered with success has
            \* deleted, while only GETs and DELETEs of it were answered since
    dbS,    \* the table as it is when only Observed's requests act on it
    s3S,    \* the bucket as it is when only Observed's requests act on it
    hist,   \* history: the files the upload responses stand for, the
            \* download responses that returned a URL, the downloads that
            \* overlapped
    shared, \* the key of the file a share answered with success has
            \* shared, while only unshares of it were answered since
    held,   \* the signed URLs clients have kept from responses
    err,    \* the exception the catch block of the last step caught, NoErr
            \* when it caught none
    env,    \* process.env.NODE_ENV
    versioning,  \* the bucket has versioning enabled
    ui      \* the page in a browser: the state of the App component, the
            \* requests it has pending, and what the API answers it

vars == <<db, s3, used, now, reqs, resp, prev, dbS, s3S, hist, shared, held,
          err, env, versioning, ui>>

Keys == Users \X PathIds

IdleSlot ==
    [pc |-> "idle", method |-> "", path |-> <<>>, hdr |-> <<>>,
     route |-> "", fileId |-> "", file |-> NoFile, body |-> NoBody, userId |-> "", item |-> NoItem,
     itemS |-> NoItem, key |-> <<>>]

NoResp ==
    [method |-> "", path |-> <<>>, hdr |-> <<>>, userId |-> "", op |-> "none",
     fileId |-> "", status |-> 0, body |-> NoBody, bodyS |-> NoBody]

NoPrev == <<>>

\* No exception.
NoErr == [name |-> "", message |-> "", external |-> FALSE]

\* An S3 command built with Key: undefined throws before it is sent.
KeyError ==
    [name |-> "Error", message |-> "No value provided for input HTTP label: Key.",
     external |-> FALSE]

\* What an external service (Cognito, DynamoDB, S3) throws when it is
\* unavailable or faulting.
Faults ==
    {[name |-> "ServiceUnavailable", message |-> "Service Unavailable",
      external |-> TRUE],
     [name |-> "TimeoutError", message |-> "connect ETIMEDOUT", external |-> TRUE]}

\* res.status(...).json({ error: error.message })
ErrorBody(e) == [error |-> e.message]

\* process.env.NODE_ENV || 'development'
Envs == {"production", "development"}

\* The state once the process has started, whatever NODE_ENV and the
\* bucket's configuration are.
Booted ==
    /\ db = {}
    /\ s3 = {}
    /\ used = {}
    /\ now = 0
    /\ reqs = [r \in Slots |-> IdleSlot]
    /\ resp = NoResp
    /\ prev = NoPrev
    /\ dbS = {}
    /\ s3S = {}
    /\ hist = [uploaded |-> {}, fileIds |-> {}, touched |-> {}, raced |-> {},
               dlOk |-> [k \in Keys |-> 0]]
    /\ shared = NoPrev
    /\ held = {}
    /\ err = NoErr

\* The backend variants: server.js on SDK v3, server-1.js on SDK v2.
Variants == {"v3", "v2"}

\* The files the API holds for a user when the page is opened: uploads of
\* earlier sessions.
Remote == [u \in Users |-> IF u = "ua" THEN UUIDs ELSE {}]

\* The accounts of the user pool that are confirmed when the page is opened.
Confirmed == {"ua"}

\* The App component as first rendered, with no token in localStorage,
\* served by a backend variant.  cognito is the name of the exception the
\* user pool answered the last login with.
Page(variant) ==
    [variant      |-> variant,
     remote       |-> Remote,
     confirmed    |-> Confirmed,
     email        |-> "",
     cognito      |-> "",
     token        |-> NoToken,
     files        |-> {},
     view         |-> "auth",
     isRegister   |-> FALSE,
     isLoading    |-> FALSE,
     fileToDelete |-> "",
     resending    |-> FALSE,
     countdown    |-> 0,
     calls        |-> {},
     settled      |-> [f \in UUIDs |-> "none"]]

\* The process has started, the bucket keeps versions, and the page is
\* served by server.js.
Started == Booted /\ versioning = TRUE /\ ui = Page("v3")

\* NODE_ENV is not set.
Init == Started /\ env = "development"

\* req.params.fileId of the request in a slot
FileIdOf(q) == q.fileId

\* What a request of user u does to the Observed-only table or bucket.
Shadow(u, new, old) == IF u = Observed THEN new ELSE old

\* The downloads of a file in flight.
Downloading(token, f) ==
    {r \in Slots : /\ reqs[r].route = "download"
                   /\ TokenOf(reqs[r].hdr) = token
                   /\ reqs[r].fileId = f}

\* The downloads of a file, those in flight included, stay within the bound.
CanDownload(token, f) ==
    LET Item == GetCommand(db, GetUserCommand(token).Username, f)
    IN  (IF Has(Item, "downloadCount") THEN Item.downloadCount ELSE 0)
        + Cardinality(Downloading(token, f)) < MaxDownloads

\* The ids clients put in a path: those an upload has returned, and one
\* that was never returned.
Addressed(rq) == Routed[rq].fileId \in hist.fileIds \cup {UnknownId, ""}

\* res.status(status).json(body): the request q of slot r is answered,
\* from the catch block that caught e when e is an exception.
Send(r, q, status, body, bodyS, e) ==
    /\ resp' = [method |-> q.method, path |-> q.path, hdr |-> q.hdr,
                userId |-> q.userId, op |-> q.route,
                fileId |-> FileIdOf(q), status |-> status, body |-> body,
                bodyS |-> bodyS]
    /\ prev' = IF q.route = "delete" /\ status = 200
               THEN <<q.userId, FileIdOf(q)>>
               ELSE IF q.route \in {"get", "delete"}
                       /\ prev = <<q.userId, FileIdOf(q)>>
               THEN prev ELSE NoPrev
    /\ shared' = IF q.route = "share" /\ status = 200
                 THEN <<q.userId, FileIdOf(q)>>
                 ELSE IF q.route = "unshare" /\ status = 200
                         /\ shared = <<q.userId, FileIdOf(q)>>
                 THEN shared ELSE NoPrev
    /\ err' = e
    /\ reqs' = [reqs EXCEPT ![r] = IdleSlot]
    /\ UNCHANGED <<held, env, versioning, ui>>

\* A response sent outside a catch block.
Respond(r, q, status, body, bodyS) == Send(r, q, status, body, bodyS, NoErr)

\* catch (error) { res.status(status).json(body) }
Caught(r, q, status, body, bodyS, e) == Send(r, q, status, body, bodyS, e)

\* The handler of slot r awaits its next call.
Continue(r, q) ==
    /\ reqs' = [reqs EXCEPT ![r] = q]
    /\ resp' = NoResp
    /\ err' = NoErr
    /\ UNCHANGED <<prev, shared, held, env, versioning, ui>>

\* The handler position a route starts at once authenticateToken calls next().
FirstStep(op) ==
    CASE op = "upload"   -> "multer"
      [] op = "list"     -> "list"
      [] op = "get"      -> "get"
      [] op = "download" -> "downloadGet"
      [] op = "versions" -> "versionsGet"
      [] op = "delete"   -> "deleteGet"
      [] op = "share"    -> "shareGet"
      [] op = "unshare"  -> "unshare"
      [] op = "stats"    -> "stats"

\* The fileIds the uploads in flight will still draw.
Reserved(q) == IF q.route = "upload" /\ q.file # NoFile THEN 1 ELSE 0

RECURSIVE ReservedIn(_)
ReservedIn(S) ==
    IF S = {} THEN 0
    ELSE LET r == CHOOSE x \in S : TRUE
         IN  Reserved(reqs[r]) + ReservedIn(S \ {r})

\* uuidv4() has a fresh value left for one more upload.
CanUpload == Cardinality(UUIDs \ used) - ReservedIn(Slots) >= 1

(***************************************************************************)
(* A request arrives and Express dispatches it: the 404 handler when no   *)
(* route matches, the health route, or authenticateToken, which answers   *)
(* 401 at once when the header yields no token.                            *)
(***************************************************************************)
Dispatch(r, rq, h) ==
    LET m  == rq.method
        p  == rq.path
        op == Routed[rq].op
    IN
    /\ reqs[r].pc = "idle"
    /\ op = "download" => CanDownload(TokenOf(h), Routed[rq].fileId)
    /\ op = "upload" => CanUpload
    /\ Addressed(rq)
    /\ \E file \in (IF op = "upload" THEN Files \cup {NoFile} ELSE {NoFile}),
          body \in (IF op = "share" THEN Bodies
                   ELSE IF op \in AuthOps THEN AuthBodies ELSE {NoBody}) :
         LET q == [IdleSlot EXCEPT !.method = m, !.path = p, !.hdr = h,
                                   !.route = op, !.fileId = Routed[rq].fileId,
                                   !.file = file, !.body = body]
         IN  IF op = "notFound"
             THEN Respond(r, q, 404, [error |-> "Route not found"],
                          [error |-> "Route not found"])
             ELSE IF op = "resend" /\ ~Has(body, "email")
             THEN Respond(r, q, 400, [error |-> "Email is required"],
                          [error |-> "Email is required"])
             ELSE IF op \in AuthOps
             THEN Continue(r, [q EXCEPT !.pc = op])
             ELSE IF ~Protected(op)
             THEN Respond(r, q, 200, [status |-> "OK"], [status |-> "OK"])
             ELSE IF TokenOf(h) = NoToken
             THEN Respond(r, q, 401, [error |-> "No token provided"],
                          [error |-> "No token provided"])
             ELSE Continue(r, [q EXCEPT !.pc = "auth"])
    /\ UNCHANGED <<db, s3, used, now, dbS, s3S, hist>>

\* The header carries an access token the user pool has issued.
Holder(h) == TokenOf(h) \in DOMAIN TokenUser

\* A request for a protected route from a client signed in with one of the
\* tokens.
Receive(r, tokens) ==
    \E rq \in Requests, h \in Headers :
        /\ TokenOf(h) \in tokens
        /\ Protected(Routed[rq].op)
        /\ Dispatch(r, rq, h)

\* A request that reaches no handler of a protected route: one without a
\* token the pool has issued, one for the health route, or one for a path
\* no route matches.
ReceiveStray(r) ==
    \E rq \in Requests, h \in Headers :
        /\ ~Holder(h) \/ ~Protected(Routed[rq].op)
        /\ Dispatch(r, rq, h)

\* A request for an authentication route.
ReceiveAuth(r) ==
    \E rq \in AuthRequests : Dispatch(r, rq, <<>>)

\* upload.single('file') registered before authenticateToken: the file
\* part is in the bucket when the token is looked at.
authenticateTokenAfterMulter(r) ==
    LET q    == reqs[r]
        user == GetUserCommand(TokenOf(q.hdr))
        Stored == IF q.route = "upload" /\ q.file # NoFile
                  THEN {ObjectKey(q.userId, id, q.file.originalname) :
                          id \in KeyUUIDs \ used}
                  ELSE {}
    IN  /\ q.pc = "auth"
        /\ IF user.ok
           THEN /\ Continue(r, [q EXCEPT !.userId = user.Username,
                                         !.pc = FirstStep(q.route)])
                /\ s3' = s3
           ELSE /\ Respond(r, q, 401, [error |-> "Invalid token"],
                           [error |-> "Invalid token"])
                /\ s3' = s3 \cup Stored
        /\ UNCHANGED <<db, used, now, dbS, s3S, hist>>

\* authenticateToken after its await: Cognito resolved the token, or threw.
authenticateToken(r) ==
    LET q    == reqs[r]
        user == GetUserCommand(TokenOf(q.hdr))
    IN  /\ q.pc = "auth"
        /\ IF user.ok
           THEN Continue(r, [q EXCEPT !.userId = user.Username,
                                      !.pc = FirstStep(q.route)])
           ELSE Respond(r, q, 401, [error |-> "Invalid token"],
                        [error |-> "Invalid token"])
        /\ UNCHANGED <<db, s3, used, now, dbS, s3S, hist>>

\* The await of cognitoClient.send(GetUserCommand) rejects because the
\* user pool is unavailable: the same catch answers.
authenticateTokenCatch(r) ==
    LET q == reqs[r]
    IN  /\ q.pc = "auth"
        /\ \E e \in Faults :
              Caught(r, q, 401, [error |-> "Invalid token"],
                     [error |-> "Invalid token"], e)
        /\ UNCHANGED <<db, s3, used, now, dbS, s3S, hist>>

(***************************************************************************)
(* The authentication routes: one Cognito command each.  The user pool    *)
(* resolves the command, rejects it, or is unavailable.                   *)
(***************************************************************************)
Exception(name, message) == [name |-> name, message |-> message, external |-> FALSE]

\* What the user pool rejects a command with.
CognitoRejects ==
    [register |-> {Exception("UsernameExistsException", "User already exists"),
                   Exception("InvalidParameterException", "Invalid parameter")},
     login    |-> {Exception("NotAuthorizedException", "Incorrect username or password."),
                   Exception("UserNotConfirmedException", "User is not confirmed.")},
     verify   |-> {Exception("CodeMismatchException", "Invalid verification code"),
                   Exception("ExpiredCodeException", "Invalid code provided")},
     resend   |-> {Exception("UserNotFoundException", "Username/client id combination not found.")}]

\* The outcomes of the command of an authentication route: resolved
\* (NoErr) only when the body names the user.
CognitoOutcomes(q) ==
    (IF Has(q.body, "email") THEN {NoErr} ELSE {})
        \cup CognitoRejects[q.route] \cup Faults

\* The access token the pool issues to a user.
IssuedTo(u) == CHOOSE t \in DOMAIN TokenUser : TokenUser[t] = u

\* POST /api/auth/register after its await of SignUpCommand.
Register(r) ==
    LET q  == reqs[r]
        ok == [message |-> "User registered successfully. Please check your email for verification."]
    IN  /\ q.pc = "register"
        /\ \E e \in CognitoOutcomes(q) :
              IF e = NoErr
              THEN Respond(r, q, 200, ok, ok)
              ELSE Caught(r, q, 400, ErrorBody(e), ErrorBody(e), e)
        /\ UNCHANGED <<db, s3, used, now, dbS, s3S, hist>>

\* { error: error.message || 'Invalid credentials' }
LoginErrorBody(e) ==
    [error |-> IF e.message = "" THEN "Invalid credentials" ELSE e.message]

\* { token, refreshToken, expiresIn } of the AuthenticationResult.
LoginBody(body) ==
    [token |-> IssuedTo(body.email), refreshToken |-> "refresh", expiresIn |-> 3600]

\* POST /api/auth/login after its await of InitiateAuthCommand.
Login(r) ==
    LET q == reqs[r]
    IN  /\ q.pc = "login"
        /\ \E e \in CognitoOutcomes(q) :
              IF e = NoErr
              THEN Respond(r, q, 200, LoginBody(q.body), LoginBody(q.body))
              ELSE Caught(r, q, 401, LoginErrorBody(e), LoginErrorBody(e), e)
        /\ UNCHANGED <<db, s3, used, now, dbS, s3S, hist>>

\* POST /api/auth/verify after its await of ConfirmSignUpCommand.
Verify(r) ==
    LET q  == reqs[r]
        ok == [message |-> "Email verified successfully"]
    IN  /\ q.pc = "verify"
        /\ \E e \in CognitoOutcomes(q) :
              IF e = NoErr
              THEN Respond(r, q, 200, ok, ok)
              ELSE Caught(r, q, 400, ErrorBody(e), ErrorBody(e), e)
        /\ UNCHANGED <<db, s3, used, now, dbS, s3S, hist>>

\* POST /api/auth/resend-verification after its await of
\* ResendConfirmationCodeCommand.
ResendVerification(r) ==
    LET q  == reqs[r]
        ok == [message |-> "Verification code resent successfully. Please check your email."]
    IN  /\ q.pc = "resend"
        /\ \E e \in CognitoOutcomes(q) :
              IF e = NoErr
              THEN Respond(r, q, 200, ok, ok)
              ELSE Caught(r, q, 400, ErrorBody(e), ErrorBody(e), e)
        /\ UNCHANGED <<db, s3, used, now, dbS, s3S, hist>>

(***************************************************************************)
(* POST /api/files/upload                                                  *)
(***************************************************************************)
\* multer-s3's key callback
key(q, id) == ObjectKey(q.userId, id, q.file.originalname)

\* The handler without its check of req.file: reading
\* req.file.originalname throws and the catch block answers.
UploadNoFileUnchecked(r) ==
    LET q == reqs[r]
        e == [name |-> "TypeError", external |-> FALSE,
              message |-> "Cannot read properties of undefined (reading 'originalname')"]
    IN  /\ q.pc = "multer"
        /\ q.file = NoFile
        /\ Caught(r, q, 500, ErrorBody(e), ErrorBody(e), e)
        /\ UNCHANGED <<db, s3, used, now, dbS, s3S, hist>>

\* upload.single('file') found no file part: req.file stays undefined and
\* the handler answers 400.
UploadNoFile(r) ==
    LET q == reqs[r]
    IN  /\ q.pc = "multer"
        /\ q.file = NoFile
        /\ Respond(r, q, 400, [error |-> "No file uploaded"],
                   [error |-> "No file uploaded"])
        /\ UNCHANGED <<db, s3, used, now, dbS, s3S, hist>>

\* upload.single('file'): multer-s3 streams the file part to the bucket
\* under the key its callback made and sets req.file.
multerS3(r) ==
    LET q == reqs[r]
    IN  /\ q.pc = "multer"
        /\ q.file # NoFile
        /\ \E id \in KeyUUIDs \ used :
             /\ \A o \in KeyUUIDs \ used : KeyRank(id) <= KeyRank(o)
             /\ used' = used \cup {id}
             /\ s3' = s3 \cup {key(q, id)}
             /\ s3S' = Shadow(q.userId, s3S \cup {key(q, id)}, s3S)
             /\ Continue(r, [q EXCEPT !.pc = "put", !.key = key(q, id)])
        /\ UNCHANGED <<db, now, dbS, hist>>

UploadBody(item) == [message |-> "File uploaded successfully", file |-> item]

\* req.file.versionId: the VersionId of S3's response to the upload.
req_file_versionId(q) == IF versioning THEN VersionId(q.key) ELSE Undefined

\* The error lib-dynamodb's marshaller throws for an undefined value.
MarshallError ==
    [name |-> "Error", external |-> FALSE,
     message |-> "Pass options.removeUndefinedValues=true to remove undefined values from map/array/set."]

\* The metadata write of the upload handler and the status it answers, in
\* server.js (sdk "v3") and in server-1.js (sdk "v2").
\* The v3 document client (DynamoDBDocumentClient.from without marshall
\* options) throws on an attribute that holds undefined; the v2
\* DocumentClient leaves the attribute out.
UploadAnswer(sdk, t, item) ==
    IF sdk = "v3" /\ HasUndefined(item)
    THEN [status |-> 500, table |-> t, body |-> ErrorBody(MarshallError)]
    ELSE [status |-> 200, table |-> PutCommand(t, RemoveUndefined(item)),
          body |-> UploadBody(RemoveUndefined(item))]

\* fileSize taken from a property multer does not set
fileDataNoSize(q, fileId, t) ==
    [userId        |-> q.userId,
     fileId        |-> fileId,
     fileName      |-> q.file.originalname,
     fileSize      |-> 0,
     s3Key         |-> q.key,
     s3Location    |-> Location(q.key),
     versionId     |-> req_file_versionId(q),
     mimeType      |-> q.file.mimetype,
     uploadDate    |-> toISOString(t),
     isPublic      |-> FALSE,
     downloadCount |-> 0]

fileData(q, fileId, t) ==
    [userId        |-> q.userId,
     fileId        |-> fileId,
     fileName      |-> q.file.originalname,
     fileSize      |-> q.file.size,
     s3Key         |-> q.key,
     s3Location    |-> Location(q.key),
     versionId     |-> req_file_versionId(q),
     mimeType      |-> q.file.mimetype,
     uploadDate    |-> toISOString(t),
     isPublic      |-> FALSE,
     downloadCount |-> 0]

\* The handler draws the record's fileId, puts the record and answers;
\* when the document client throws, the catch block answers and the
\* fileId drawn is lost.
UploadPut(r) ==
    LET q == reqs[r]
    IN  /\ q.pc = "put"
        /\ \E id \in UUIDs \ used :
             LET item == fileData(q, id, now)
                 out  == UploadAnswer("v3", db, item)
                 outS == UploadAnswer("v3", dbS, item)
             IN  IF out.status = 200
                 THEN /\ used' = used \cup {id}
                      /\ db' = out.table
                      /\ dbS' = Shadow(q.userId, outS.table, dbS)
                      /\ hist' = [hist EXCEPT
                                    !.uploaded = @ \cup {[userId |-> q.userId,
                                                          fileId |-> id,
                                                          file   |-> q.file]},
                                    !.fileIds = @ \cup {id}]
                      /\ Respond(r, q, 200, out.body, out.body)
                 ELSE /\ Caught(r, q, out.status, out.body, out.body, MarshallError)
                      /\ UNCHANGED <<db, dbS, used, hist>>
        /\ now' = now + 1
        /\ UNCHANGED <<s3, s3S>>

(***************************************************************************)
(* GET /api/files and GET /api/files/:fileId                               *)
(***************************************************************************)
FilesBody(t, u) ==
    LET Items == QueryCommand(t, u, FALSE)
    IN  [files |-> Items, count |-> Len(Items)]

ListFiles(r) ==
    LET q == reqs[r]
    IN  /\ q.pc = "list"
        /\ Respond(r, q, 200, FilesBody(db, q.userId), FilesBody(dbS, q.userId))
        /\ UNCHANGED <<db, s3, used, now, dbS, s3S, hist>>

NotFoundBody == [error |-> "File not found"]

GetFile(r) ==
    LET q     == reqs[r]
        Item  == GetCommand(db, q.userId, FileIdOf(q))
        ItemS == GetCommand(dbS, q.userId, FileIdOf(q))
    IN  /\ q.pc = "get"
        /\ IF Item = NoItem
           THEN Respond(r, q, 404, NotFoundBody,
                        IF ItemS = NoItem THEN NotFoundBody ELSE [file |-> ItemS])
           ELSE Respond(r, q, 200, [file |-> Item],
                        IF ItemS = NoItem THEN NotFoundBody ELSE [file |-> ItemS])
        /\ UNCHANGED <<db, s3, used, now, dbS, s3S, hist>>

\* The part of a result.Item kept while a handler holds it across an
\* await: what its later calls are built from (s3Key, fileName, versionId)
\* and the counter its update is about.
Read(item) ==
    [a \in (DOMAIN item) \cap {"s3Key", "fileName", "versionId",
                               "downloadCount"} |-> item[a]]

\* The GetCommand every handler of an existing file starts with: 404 when
\* there is no item, else on to the handler's next call with result.Item.
GetThen(r, at, next) ==
    LET q     == reqs[r]
        Item  == GetCommand(db, q.userId, FileIdOf(q))
        ItemS == GetCommand(dbS, q.userId, FileIdOf(q))
    IN  /\ q.pc = at
        /\ IF Item = NoItem
           THEN Respond(r, q, 404, NotFoundBody,
                        IF ItemS = NoItem THEN NotFoundBody ELSE [file |-> ItemS])
           ELSE Continue(r, [q EXCEPT !.pc = next, !.item = Read(Item),
                                      !.itemS = Read(ItemS)])
        /\ UNCHANGED <<db, s3, used, now, dbS, s3S>>

\* An S3 command built with Key: undefined throws; the catch answers 500.
KeyErrorBody == ErrorBody(KeyError)

\* getSignedUrl(s3Client, new GetObjectCommand({Key, ...}), {expiresIn})
getSignedUrl(objectKey, disposition, t, expiresIn) ==
    [Key |-> objectKey, ResponseContentDisposition |-> disposition,
     signedAt |-> t, expiresIn |-> expiresIn]

(***************************************************************************)
(* GET /api/files/download/:fileId                                         *)
(***************************************************************************)
DownloadTtl == 3600

\* const { expiresIn = 86400 } = req.body
DefaultShareTtl == 86400

\* 'SET downloadCount = :inc'
DownloadExprSetOne(item) == SetAttr(item, "downloadCount", 1)

\* 'SET downloadCount = if_not_exists(downloadCount, :zero) + :inc'
DownloadExpr(item) ==
    SetAttr(item, "downloadCount",
            (IF Has(item, "downloadCount") THEN item.downloadCount ELSE 0) + 1)

\* 'SET downloadCount = :next', :next being the count the handler read
\* before, plus one
DownloadUpdateStale(t, q) ==
    UpdateCommand(t, q.userId, FileIdOf(q),
                  SetAttr(UpdateBase(t, q.userId, FileIdOf(q)), "downloadCount",
                          (IF Has(q.item, "downloadCount")
                           THEN q.item.downloadCount ELSE 0) + 1))

\* The table after the handler's UpdateCommand; q.item is the item the
\* handler read before.
DownloadUpdateCommand(t, q) ==
    UpdateCommand(t, q.userId, FileIdOf(q),
                  DownloadExpr(UpdateBase(t, q.userId, FileIdOf(q))))

\* The URL signed with the share default instead of the download ttl
DownloadBodyDayLong(item, t) ==
    [downloadUrl |-> getSignedUrl(item.s3Key, <<"attachment", item.fileName>>,
                                  t, DefaultShareTtl),
     fileName    |-> item.fileName,
     expiresIn   |-> DownloadTtl]

DownloadBody(item, t) ==
    [downloadUrl |-> getSignedUrl(item.s3Key, <<"attachment", item.fileName>>,
                                  t, DownloadTtl),
     fileName    |-> item.fileName,
     expiresIn   |-> DownloadTtl]

\* Another download of the same file has read the item and not yet written.
Overlaps(r) ==
    \E o \in Slots \ {r} :
        /\ reqs[o].pc = "downloadUpdate"
        /\ reqs[o].userId = reqs[r].userId
        /\ FileIdOf(reqs[o]) = FileIdOf(reqs[r])

DownloadGet(r) ==
    /\ GetThen(r, "downloadGet", "downloadUpdate")
    /\ hist' = IF Overlaps(r) /\ reqs'[r].pc = "downloadUpdate"
               THEN [hist EXCEPT !.raced = @ \cup {<<reqs[r].userId, FileIdOf(reqs[r])>>}]
               ELSE hist

DownloadUpdate(r) ==
    LET q == reqs[r]
        k == <<q.userId, FileIdOf(q)>>
    IN  /\ q.pc = "downloadUpdate"
        /\ IF ~HasKey(q.item)
           THEN /\ Caught(r, q, 500, KeyErrorBody, KeyErrorBody, KeyError)
                /\ UNCHANGED <<db, dbS, hist>>
           ELSE /\ db' = DownloadUpdateCommand(db, q)
                /\ dbS' = Shadow(q.userId, DownloadUpdateCommand(dbS, q), dbS)
                /\ hist' = [hist EXCEPT !.dlOk[k] = @ + 1,
                                        !.touched = @ \cup {k}]
                /\ Respond(r, q, 200, DownloadBody(q.item, now),
                           IF HasKey(q.itemS) THEN DownloadBody(q.itemS, now)
                           ELSE KeyErrorBody)
        /\ UNCHANGED <<s3, used, now, s3S>>

(***************************************************************************)
(* GET /api/files/:fileId/versions                                         *)
(***************************************************************************)
VersionsBody(bucket, item) ==
    [versions       |-> ListObjectVersionsCommand(bucket, item),
     currentVersion |-> IF Has(item, "versionId") THEN item.versionId ELSE <<>>]

VersionsGet(r) ==
    /\ GetThen(r, "versionsGet", "versionsList")
    /\ UNCHANGED hist

VersionsList(r) ==
    LET q == reqs[r]
    IN  /\ q.pc = "versionsList"
        /\ Respond(r, q, 200, VersionsBody(s3, q.item), VersionsBody(s3S, q.itemS))
        /\ UNCHANGED <<db, s3, used, now, dbS, s3S, hist>>

(***************************************************************************)
(* DELETE /api/files/:fileId                                               *)
(***************************************************************************)
DeleteGet(r) ==
    /\ GetThen(r, "deleteGet", "deleteS3")
    /\ UNCHANGED hist

\* The handler without its DeleteObjectCommand
DeleteFromS3Skipped(bucket, q) == bucket

\* The bucket after the handler's DeleteObjectCommand.
DeleteFromS3(bucket, q) == DeleteObjectCommand(bucket, q.item.s3Key)

\* A DeleteCommand keyed by the fileId alone matches no item
DeleteFromDbNoMatch(t, q) == t

\* The table after the handler's DeleteCommand.
DeleteFromDb(t, q) == DeleteCommand(t, q.userId, FileIdOf(q))

\* A DeleteObjectCommand that rejects with NoSuchKey when the bucket does
\* not hold the key.
DeleteS3NoSuchKey(r) ==
    LET q == reqs[r]
        e == [name |-> "NoSuchKey", external |-> FALSE,
              message |-> "The specified key does not exist."]
    IN  /\ q.pc = "deleteS3"
        /\ IF ~HasKey(q.item)
           THEN /\ Caught(r, q, 500, KeyErrorBody, KeyErrorBody, KeyError)
                /\ UNCHANGED <<s3, s3S, hist>>
           ELSE IF q.item.s3Key \notin s3
           THEN /\ Caught(r, q, 500, ErrorBody(e), ErrorBody(e), e)
                /\ UNCHANGED <<s3, s3S, hist>>
           ELSE /\ s3' = DeleteFromS3(s3, q)
                /\ s3S' = Shadow(q.userId, DeleteFromS3(s3S, q), s3S)
                /\ hist' = [hist EXCEPT !.uploaded =
                               {i \in @ : ~(i.userId = q.userId /\ i.fileId = FileIdOf(q))}]
                /\ Continue(r, [q EXCEPT !.pc = "deleteDb"])
        /\ UNCHANGED <<db, used, now, dbS>>

DeleteS3(r) ==
    LET q == reqs[r]
    IN  /\ q.pc = "deleteS3"
        /\ IF ~HasKey(q.item)
           THEN /\ Caught(r, q, 500, KeyErrorBody, KeyErrorBody, KeyError)
                /\ UNCHANGED <<s3, s3S, hist>>
           ELSE /\ s3' = DeleteFromS3(s3, q)
                /\ s3S' = Shadow(q.userId, DeleteFromS3(s3S, q), s3S)
                /\ hist' = [hist EXCEPT !.uploaded =
                               {i \in @ : ~(i.userId = q.userId /\ i.fileId = FileIdOf(q))}]
                /\ Continue(r, [q EXCEPT !.pc = "deleteDb"])
        /\ UNCHANGED <<db, used, now, dbS>>

DeleteDb(r) ==
    LET q == reqs[r]
        k == <<q.userId, FileIdOf(q)>>
    IN  /\ q.pc = "deleteDb"
        /\ db' = DeleteFromDb(db, q)
        /\ dbS' = Shadow(q.userId, DeleteFromDb(dbS, q), dbS)
        /\ hist' = [hist EXCEPT !.dlOk[k] = 0, !.touched = @ \ {k}]
        /\ Respond(r, q, 200, [message |-> "File deleted successfully"],
                   [message |-> "File deleted successfully"])
        /\ UNCHANGED <<s3, used, now, s3S>>

(***************************************************************************)
(* POST /api/files/share/:fileId and POST /api/files/unshare/:fileId      *)
(***************************************************************************)
\* The ttl of the request body ignored
ExpiresInDefault(body) == DefaultShareTtl

\* const { expiresIn = 86400 } = req.body
ExpiresIn(body) == IF Has(body, "expiresIn") THEN body.expiresIn ELSE DefaultShareTtl

\* new Date(Date.now() + expiresIn * 1000).toISOString()
expiryDate(t, expiresIn) == toISOString(t + expiresIn * 1000)

\* 'SET isPublic = :isPublic, uploadDate = :now, shareExpiry = :expiry'
ShareExprStampingUpload(item, t, expiry) ==
    SetAttr(SetAttr(SetAttr(item, "isPublic", TRUE),
                    "uploadDate", toISOString(t)),
            "shareExpiry", expiry)

\* 'SET isPublic = :isPublic, lastShared = :now, shareExpiry = :expiry'
ShareExpr(item, t, expiry) ==
    SetAttr(SetAttr(SetAttr(item, "isPublic", TRUE),
                    "lastShared", toISOString(t)),
            "shareExpiry", expiry)

ShareUpdateCommand(tbl, q, t) ==
    UpdateCommand(tbl, q.userId, FileIdOf(q),
                  ShareExpr(UpdateBase(tbl, q.userId, FileIdOf(q)), t,
                            expiryDate(t, ExpiresIn(q.body))))

ShareBody(item, body, t) ==
    [shareUrl  |-> getSignedUrl(item.s3Key, <<>>, t, ExpiresIn(body)),
     expiresAt |-> expiryDate(t, ExpiresIn(body)),
     expiresIn |-> ExpiresIn(body)]

ShareGet(r) ==
    /\ GetThen(r, "shareGet", "shareUpdate")
    /\ UNCHANGED hist

ShareUpdate(r) ==
    LET q == reqs[r]
        k == <<q.userId, FileIdOf(q)>>
    IN  /\ q.pc = "shareUpdate"
        /\ IF ~HasKey(q.item)
           THEN /\ Caught(r, q, 500, KeyErrorBody, KeyErrorBody, KeyError)
                /\ UNCHANGED <<db, dbS, hist>>
           ELSE /\ db' = ShareUpdateCommand(db, q, now)
                /\ dbS' = Shadow(q.userId, ShareUpdateCommand(dbS, q, now), dbS)
                /\ hist' = [hist EXCEPT !.touched = @ \cup {k}]
                /\ Respond(r, q, 200, ShareBody(q.item, q.body, now),
                           IF HasKey(q.itemS) THEN ShareBody(q.itemS, q.body, now)
                           ELSE KeyErrorBody)
        /\ UNCHANGED <<s3, used, now, s3S>>

\* 'SET isPublic = :isPublic REMOVE shareUrl'
UnshareExprKeepsExpiry(item) ==
    RemoveAttr(SetAttr(item, "isPublic", FALSE), "shareUrl")

\* 'REMOVE shareUrl, shareExpiry'
UnshareExprNoSet(item) == RemoveAttr(RemoveAttr(item, "shareUrl"), "shareExpiry")

\* 'SET isPublic = :isPublic REMOVE shareUrl, shareExpiry'
UnshareExpr(item) ==
    RemoveAttr(RemoveAttr(SetAttr(item, "isPublic", FALSE), "shareUrl"),
               "shareExpiry")

UnshareUpdateCommand(t, q) ==
    UpdateCommand(t, q.userId, FileIdOf(q),
                  UnshareExpr(UpdateBase(t, q.userId, FileIdOf(q))))

\* The handler also deletes the shared object.
UnshareDeletingObject(r) ==
    LET q    == reqs[r]
        Item == GetCommand(db, q.userId, FileIdOf(q))
    IN  /\ q.pc = "unshare"
        /\ db' = UnshareUpdateCommand(db, q)
        /\ dbS' = Shadow(q.userId, UnshareUpdateCommand(dbS, q), dbS)
        /\ s3' = IF HasKey(Item) THEN DeleteObjectCommand(s3, Item.s3Key) ELSE s3
        /\ Respond(r, q, 200, [message |-> "Share link revoked successfully"],
                   [message |-> "Share link revoked successfully"])
        /\ UNCHANGED <<used, now, s3S, hist>>

Unshare(r) ==
    LET q == reqs[r]
    IN  /\ q.pc = "unshare"
        /\ db' = UnshareUpdateCommand(db, q)
        /\ dbS' = Shadow(q.userId, UnshareUpdateCommand(dbS, q), dbS)
        /\ Respond(r, q, 200, [message |-> "Share link revoked successfully"],
                   [message |-> "Share link revoked successfully"])
        /\ UNCHANGED <<s3, used, now, s3S, hist>>

(***************************************************************************)
(* GET /api/stats                                                          *)
(***************************************************************************)
\* result.Items.reduce((sum, file) => sum + (file.fileSize || 0), 0)
RECURSIVE totalSize(_)
totalSize(Items) ==
    IF Items = <<>> THEN 0
    ELSE (IF Has(Head(Items), "fileSize") THEN Head(Items).fileSize ELSE 0)
         + totalSize(Tail(Items))

StatsBody(t, u) ==
    LET Items == QueryCommand(t, u, TRUE)
    IN  [totalFiles |-> Len(Items), totalSize |-> totalSize(Items)]

Stats(r) ==
    LET q == reqs[r]
    IN  /\ q.pc = "stats"
        /\ Respond(r, q, 200, StatsBody(db, q.userId), StatsBody(dbS, q.userId))
        /\ UNCHANGED <<db, s3, used, now, dbS, s3S, hist>>

(***************************************************************************)
(* Failures of the external services inside the file routes.              *)
(***************************************************************************)
\* The global error handler's body.
GlobalErrorBody(e) ==
    IF env = "development"
    THEN [error |-> "Internal server error", message |-> e.message]
    ELSE [error |-> "Internal server error"]

\* An upload that puts the record before the object is stored: the store
\* fails after the PutCommand.
multerErrorAfterPut(r) ==
    LET q == reqs[r]
    IN  /\ q.pc = "multer"
        /\ q.file # NoFile
        /\ \E e \in Faults, id \in UUIDs \ used, kid \in KeyUUIDs \ used :
              LET item == fileData([q EXCEPT !.key = key(q, kid)], id, now)
              IN  /\ db' = PutCommand(db, item)
                  /\ dbS' = Shadow(q.userId, PutCommand(dbS, item), dbS)
                  /\ Caught(r, q, 500, GlobalErrorBody(e), GlobalErrorBody(e), e)
        /\ UNCHANGED <<s3, used, now, s3S, hist>>

\* multer-s3's upload to the bucket fails: multer passes the error to
\* next(), the route handler does not run and the global error handler
\* answers.  No object is stored.
multerError(r) ==
    LET q == reqs[r]
    IN  /\ q.pc = "multer"
        /\ q.file # NoFile
        /\ \E e \in Faults :
              Caught(r, q, 500, GlobalErrorBody(e), GlobalErrorBody(e), e)
        /\ UNCHANGED <<db, s3, used, now, dbS, s3S, hist>>

\* The handler positions that await a command sent to the table or the
\* bucket.
Awaiting ==
    {"put", "list", "get", "downloadGet", "downloadUpdate", "versionsGet",
     "versionsList", "deleteGet", "deleteS3", "deleteDb", "shareGet",
     "shareUpdate", "unshare", "stats"}

\* A catch block that, when the PutCommand of an upload rejects, deletes
\* the object multer-s3 has stored.
ThrowRollingBack(r) ==
    LET q == reqs[r]
    IN  /\ q.pc \in Awaiting
        /\ q.pc \in {"downloadUpdate", "deleteS3", "shareUpdate"} => HasKey(q.item)
        /\ \E e \in Faults :
              Caught(r, q, 500, ErrorBody(e), ErrorBody(e), e)
        /\ s3' = IF q.pc = "put" THEN s3 \ {q.key} ELSE s3
        /\ s3S' = IF q.pc = "put" THEN Shadow(q.userId, s3S \ {q.key}, s3S) ELSE s3S
        /\ UNCHANGED <<db, used, now, dbS, hist>>

\* The command a file handler awaits rejects because the table or the
\* bucket is unavailable: nothing is written and the handler's catch
\* block answers 500 with the exception's message.
Throw(r) ==
    LET q == reqs[r]
    IN  /\ q.pc \in Awaiting
        /\ q.pc \in {"downloadUpdate", "deleteS3", "shareUpdate"} => HasKey(q.item)
        /\ \E e \in Faults :
              Caught(r, q, 500, ErrorBody(e), ErrorBody(e), e)
        /\ UNCHANGED <<db, s3, used, now, dbS, s3S, hist>>

(***************************************************************************)
(* Signed URLs in the hands of clients, and the clock.                    *)
(***************************************************************************)
\* The time a signed URL expires at, in milliseconds.
Expiry(url) == url.signedAt + url.expiresIn * 1000

\* S3 serves a GET of a signed URL: the object is there and the URL has
\* not expired.  Who presents the URL plays no part.
Accepts(bucket, url, t) == url.Key \in bucket /\ t < Expiry(url)

\* The signed URL a response body carries.
LinkOf(body) ==
    IF Has(body, "downloadUrl") THEN {body.downloadUrl}
    ELSE IF Has(body, "shareUrl") THEN {body.shareUrl}
    ELSE {}

\* A client keeps the URL of the response just sent (and may pass it on).
Hold ==
    /\ resp.status = 200
    /\ LinkOf(resp.body) # {}
    /\ ~(LinkOf(resp.body) \subseteq held)
    /\ Cardinality(held) < Cardinality(Holders)
    /\ held' = held \cup LinkOf(resp.body)
    /\ resp' = NoResp
    /\ err' = NoErr
    /\ UNCHANGED <<db, s3, used, now, reqs, prev, dbS, s3S, hist, shared, env,
                   versioning, ui>>

\* Time passes, to just before or just after the expiry of a URL a
\* client holds.
Tick ==
    /\ \E url \in held, d \in {-1, 1} :
          /\ Expiry(url) + d > now
          /\ now' = Expiry(url) + d
    /\ resp' = NoResp
    /\ err' = NoErr
    /\ UNCHANGED <<db, s3, used, reqs, prev, dbS, s3S, hist, shared, held, env,
                   versioning, ui>>

(***************************************************************************)
(* The page (src/frontend/src/App.js): the App component's state and its  *)
(* handlers.  An async handler is two steps: up to its fetch, and from    *)
(* the settling of the fetch on.  The API is what the page sees of it:    *)
(* the status and body of a response, and the files it lists.             *)
(***************************************************************************)
server ==
    <<db, s3, used, now, reqs, resp, prev, dbS, s3S, hist, shared, held, err,
      env, versioning>>

\* A fetch the page has pending: the request and what the handler's closure
\* holds.
Call(kind, user, token, fileId, original) ==
    [kind |-> kind, user |-> user, token |-> token, fileId |-> fileId,
     original |-> original]

Pending(kind) == {c \in ui.calls : c.kind = kind}

\* The bound on the fetches the page has pending at once.
MaxPending == 2

CanFetch == Cardinality(ui.calls) < MaxPending

\* server-1.js: { error: 'Invalid credentials' }
LoginErrorBodyV2(e) == [error |-> "Invalid credentials"]

\* The answer of POST /api/auth/login of a backend variant when Cognito's
\* outcome is e.
LoginAnswer(variant, user, e) ==
    IF e = NoErr
    THEN [ok |-> TRUE, data |-> LoginBody([email |-> user])]
    ELSE [ok |-> FALSE,
          data |-> IF variant = "v3" THEN LoginErrorBody(e) ELSE LoginErrorBodyV2(e)]

\* The answer of POST /api/auth/register, the same in both variants.
RegisterAnswer(e) ==
    IF e = NoErr
    THEN [ok |-> TRUE, data |-> NoBody]
    ELSE [ok |-> FALSE, data |-> ErrorBody(e)]

\* The error messages of the model that contain 'user is not confirmed'
\* once in lower case.
MentionNotConfirmed == {"User is not confirmed."}

\* data.error && data.error.toLowerCase().includes('user is not confirmed')
includesNotConfirmed(data) ==
    Has(data, "error") /\ data.error \in MentionNotConfirmed

\* The countdown a successful resend starts.
ResendCooldown == 60

\* useEffect(..., [token]) for a token just set: fetchFiles() is called
\* and the view is the dashboard.
fetchFiles(token) == Call("files", TokenUser[token], token, "", {})

\* onClick={() => setIsRegister(!isRegister)}
toggleRegister ==
    /\ ui.view = "auth"
    /\ ui' = [ui EXCEPT !.isRegister = ~@]
    /\ UNCHANGED server

\* handleAuth up to its fetch, with the email typed into the form; the
\* submit button is disabled while isLoading.
handleAuth ==
    /\ CanFetch
    /\ ui.view = "auth"
    /\ ~ui.isLoading
    /\ \E email \in Users :
          ui' = [ui EXCEPT
                   !.email = email,
                   !.isLoading = TRUE,
                   !.calls = @ \cup {Call(IF ui.isRegister THEN "register" ELSE "login",
                                          email, NoToken, "", {})}]
    /\ UNCHANGED server

\* handleAuth from the response of POST /api/auth/register on.
handleAuthRegistered ==
    /\ \E c \in Pending("register"), e \in {NoErr} \cup CognitoRejects.register \cup Faults :
          LET res == RegisterAnswer(e)
          IN  ui' = [ui EXCEPT
                       !.calls = @ \ {c},
                       !.isLoading = FALSE,
                       !.view = IF res.ok THEN "verify" ELSE @]
    /\ UNCHANGED server

\* handleAuth from the response of POST /api/auth/login on; setToken runs
\* the token effect.  Cognito issues tokens to confirmed accounts only.
handleAuthLoggedIn ==
    /\ \E c \in Pending("login"), e \in {NoErr} \cup CognitoRejects.login \cup Faults :
          LET res == LoginAnswer(ui.variant, c.user, e)
          IN  /\ res.ok => c.user \in ui.confirmed
              /\ ui' = IF res.ok
                       THEN [ui EXCEPT
                               !.cognito = e.name,
                               !.calls = (@ \ {c}) \cup {fetchFiles(res.data.token)},
                               !.isLoading = FALSE,
                               !.token = res.data.token,
                               !.view = "dashboard"]
                       ELSE [ui EXCEPT
                               !.cognito = e.name,
                               !.calls = @ \ {c},
                               !.isLoading = FALSE,
                               !.view = IF includesNotConfirmed(res.data)
                                        THEN "verify" ELSE @]
    /\ UNCHANGED server

\* fetchFiles from the response of GET /api/files on: setFiles(data.files
\* || []), or the toast of the catch.
fetchFilesSettled ==
    /\ \E c \in Pending("files"), ok \in BOOLEAN :
          ui' = [ui EXCEPT
                   !.calls = @ \ {c},
                   !.files = IF ok THEN ui.remote[c.user] ELSE @]
    /\ UNCHANGED server

\* handleVerify up to its fetch.
handleVerify ==
    /\ CanFetch
    /\ ui.view = "verify"
    /\ ~ui.isLoading
    /\ ui' = [ui EXCEPT !.isLoading = TRUE,
                        !.calls = @ \cup {Call("verify", ui.email, NoToken, "", {})}]
    /\ UNCHANGED server

\* handleVerify from the response on; a success confirms the account.
handleVerifySettled ==
    /\ \E c \in Pending("verify"), ok \in BOOLEAN :
          ui' = [ui EXCEPT
                   !.calls = @ \ {c},
                   !.confirmed = IF ok THEN @ \cup {c.user} ELSE @,
                   !.isLoading = FALSE,
                   !.view = IF ok THEN "auth" ELSE @,
                   !.isRegister = IF ok THEN FALSE ELSE @]
    /\ UNCHANGED server

\* onClick={() => setView('auth')}, Back to Login
backToLogin ==
    /\ ui.view = "verify"
    /\ ui' = [ui EXCEPT !.view = "auth"]
    /\ UNCHANGED server

\* handleResendCode up to its fetch: if (resending) return.
handleResendCode ==
    /\ CanFetch
    /\ ui.view = "verify"
    /\ ~ui.resending
    /\ ui' = [ui EXCEPT !.resending = TRUE,
                        !.calls = @ \cup {Call("resend", ui.email, NoToken, "", {})}]
    /\ UNCHANGED server

\* A successful resend that starts the countdown at half the time.
handleResendCodeSettledHalf ==
    /\ \E c \in Pending("resend"), ok \in BOOLEAN :
          ui' = [ui EXCEPT
                   !.calls = @ \ {c},
                   !.countdown = IF ok THEN ResendCooldown \div 2 ELSE @,
                   !.resending = IF ok THEN @ ELSE FALSE]
    /\ UNCHANGED server

\* handleResendCode from the response on: setCountdown(60), or the catch's
\* setResending(false).
handleResendCodeSettled ==
    /\ \E c \in Pending("resend"), ok \in BOOLEAN :
          ui' = [ui EXCEPT
                   !.calls = @ \ {c},
                   !.countdown = IF ok THEN ResendCooldown ELSE @,
                   !.resending = IF ok THEN @ ELSE FALSE]
    /\ UNCHANGED server

\* The countdown effect's timer fires: setCountdown(countdown - 1); the
\* effect of the render with countdown 0 calls setResending(false).
countdownTimer ==
    /\ ui.countdown > 0
    /\ ui' = [ui EXCEPT !.countdown = @ - 1,
                        !.resending = IF ui.countdown = 1 THEN FALSE ELSE @]
    /\ UNCHANGED server

\* onClick of a file's delete button: setFileToDelete(file.fileId)
askDelete ==
    /\ ui.view = "dashboard"
    /\ ui.fileToDelete = ""
    /\ \E f \in ui.files : ui' = [ui EXCEPT !.fileToDelete = f]
    /\ UNCHANGED server

\* handleConfirmDelete up to its fetch, from the dialog the dashboard shows
\* while fileToDelete is set: the list is copied, the file is taken off the
\* list and the dialog is closed.
handleConfirmDelete ==
    /\ CanFetch
    /\ ui.view = "dashboard"
    /\ ui.fileToDelete # ""
    /\ ui' = [ui EXCEPT
                 !.files = @ \ {ui.fileToDelete},
                 !.fileToDelete = "",
                 !.calls = @ \cup {Call("delete", TokenUser[ui.token], ui.token,
                                        ui.fileToDelete, ui.files)}]
    /\ UNCHANGED server

\* toast.promise once the DELETE settles: nothing more on success,
\* setFiles(originalFiles) on error.  The API answers success only for a
\* file it holds, and then holds it no more.
handleConfirmDeleteSettled ==
    /\ \E c \in Pending("delete"), ok \in BOOLEAN :
          /\ ok => c.fileId \in ui.remote[c.user]
          /\ ui' = [ui EXCEPT
                       !.calls = @ \ {c},
                       !.remote[c.user] = IF ok THEN @ \ {c.fileId} ELSE @,
                       !.files = IF ok THEN @ ELSE c.original,
                       !.settled[c.fileId] =
                           IF c.token # ui.token THEN @
                           ELSE IF ok THEN "ok" ELSE "failed"]
    /\ UNCHANGED server

\* handleLogout; setToken(null) runs the token effect.
handleLogout ==
    /\ ui.view = "dashboard"
    /\ ui' = [ui EXCEPT !.token = NoToken,
                        !.files = {},
                        !.view = "auth",
                        !.settled = [f \in UUIDs |-> "none"]]
    /\ UNCHANGED server

(***************************************************************************)
(* Specifications.  Spec: requests interleave at every await.  SeqSpec:   *)
(* a request arrives only when none is in flight (a sequential run).      *)
(***************************************************************************)
\* The steps of the handlers that write to the table or the bucket.
Write(r) ==
    \/ authenticateToken(r)
    \/ UploadNoFile(r)
    \/ multerS3(r)
    \/ UploadPut(r)
    \/ DownloadGet(r)
    \/ DownloadUpdate(r)
    \/ DeleteGet(r)
    \/ DeleteS3(r)
    \/ DeleteDb(r)
    \/ ShareGet(r)
    \/ ShareUpdate(r)
    \/ Unshare(r)

\* The steps of the handlers that only read.
ReadOnly(r) ==
    \/ ListFiles(r)
    \/ GetFile(r)
    \/ VersionsGet(r)
    \/ VersionsList(r)
    \/ Stats(r)

Handle(r) == Write(r) \/ ReadOnly(r)

Writing == {"upload", "download", "delete", "share", "unshare"}

\* At most one upload with a file has been received.
OneFile == Cardinality(used \cap UUIDs) + ReservedIn(Slots) <= 1

\* Node hands a request the first free slot.
FirstFree(r) ==
    /\ reqs[r].pc = "idle"
    /\ \A o \in Slots : reqs[o].pc = "idle" => SlotRank(r) <= SlotRank(o)

\* Spec: the writing requests of one signed-in user about one file, in
\* flight together.
Arrive(r) ==
    /\ FirstFree(r)
    /\ Receive(r, {"ta"})
    /\ reqs'[r].route \in Writing
    /\ OneFile'

Next == \E r \in Slots : Arrive(r) \/ Write(r)

Spec == Init /\ [][Next]_vars

NoneInFlight == \A r \in Slots : reqs[r].pc = "idle"

\* A sequential run needs one slot.
OneSlot == CHOOSE r \in Slots : SlotRank(r) = 1

\* SeqSpec: the requests of one signed-in user, one at a time.
SeqArrive == NoneInFlight /\ Receive(OneSlot, {"ta"})

SeqNext == SeqArrive \/ Handle(OneSlot)

SeqSpec == Init /\ [][SeqNext]_vars

\* PairSpec: the requests of two signed-in users about one file, one at a
\* time.
PairArrive == NoneInFlight /\ Receive(OneSlot, {"ta", "tb"}) /\ OneFile'

PairNext == PairArrive \/ Handle(OneSlot)

PairSpec == Init /\ [][PairNext]_vars

\* UrlSpec: the writing requests of one signed-in user about one file, one
\* at a time, clients that keep the signed URLs, and the clock.
UrlArrive ==
    /\ NoneInFlight
    /\ Receive(OneSlot, {"ta"})
    /\ reqs'[OneSlot].route \in Writing
    /\ OneFile'

UrlNext == UrlArrive \/ Write(OneSlot) \/ Hold \/ Tick

UrlSpec == Init /\ [][UrlNext]_vars

\* FaultSpec: the requests of one signed-in user about one file and the
\* authentication requests, one at a time, with external services that
\* may fail, in production or in development.
FaultInit == Started /\ env \in Envs

\* TwinSpec: the requests of one signed-in user about one file, one at a
\* time, with a bucket that keeps versions or one that does not.
TwinInit ==
    Booted /\ env = "development" /\ versioning \in BOOLEAN /\ ui = Page("v3")

TwinArrive == NoneInFlight /\ Receive(OneSlot, {"ta"}) /\ OneFile'

TwinNext == TwinArrive \/ Handle(OneSlot)

TwinSpec == TwinInit /\ [][TwinNext]_vars

FaultArrive ==
    /\ NoneInFlight
    /\ Receive(OneSlot, {"ta"}) \/ ReceiveAuth(OneSlot)
    /\ OneFile'

Fail(r) ==
    \/ authenticateTokenCatch(r)
    \/ multerError(r)
    \/ Throw(r)

Auth(r) ==
    \/ Register(r)
    \/ Login(r)
    \/ Verify(r)
    \/ ResendVerification(r)

FaultNext ==
    FaultArrive \/ Handle(OneSlot) \/ Auth(OneSlot) \/ Fail(OneSlot)

FaultSpec == FaultInit /\ [][FaultNext]_vars

\* GateSpec: the requests of one signed-in user about one file and the
\* requests of clients without a valid token, one at a time, with a user
\* pool that may be unavailable.
GateArrive ==
    /\ NoneInFlight
    /\ Receive(OneSlot, {"ta"}) \/ ReceiveStray(OneSlot)
    /\ OneFile'

GateNext ==
    GateArrive \/ Handle(OneSlot) \/ authenticateTokenCatch(OneSlot)

GateSpec == Init /\ [][GateNext]_vars

\* PageSpec: one page, served by either backend variant, with every control
\* but the resending of the code.
PageInit ==
    /\ Booted /\ env = "development" /\ versioning = TRUE
    /\ ui \in {Page(v) : v \in Variants}

Resend ==
    \/ handleResendCode
    \/ handleResendCodeSettled
    \/ countdownTimer

SignIn ==
    \/ toggleRegister
    \/ handleAuth
    \/ handleAuthRegistered
    \/ handleAuthLoggedIn
    \/ handleVerify
    \/ handleVerifySettled
    \/ backToLogin

Dashboard ==
    \/ fetchFilesSettled
    \/ askDelete
    \/ handleConfirmDelete
    \/ handleConfirmDeleteSettled
    \/ handleLogout

PageNext == SignIn \/ Dashboard

PageSpec == PageInit /\ [][PageNext]_vars

\* ResendSpec: the page before sign-in; a timer that is set fires and a
\* fetch settles.
ResendNext == SignIn \/ Resend

ResendSpec ==
    /\ PageInit
    /\ [][ResendNext]_vars
    /\ WF_vars(countdownTimer)
    /\ WF_vars(handleResendCodeSettled)

\* The requests of clients that hold no valid token, and those for paths
\* that match no route.
StrayNext == \E r \in Slots : ReceiveStray(r) \/ authenticateToken(r)

StraySpec == Init /\ [][StrayNext]_vars

(***************************************************************************)
(* Properties.                                                             *)
(***************************************************************************)
\* The last step sent a response.
Answered == resp.op # "none"

UnderFiles(path) == Len(path) >= 1 /\ path[1] = "files"

\* The request carried no bearer token.
NoBearer(hdr) == TokenOf(hdr) = NoToken

\* Some registered route matches the method and the path.
Registered(method, path) ==
    \E n \in 1..Len(Routes) : Matches(Routes[n], method, path)

OwnRows(t, u) == {i \in t : i.userId = u}

\* C2: isolation of the users.  The requests of Observed leave the other
\* users' records alone and the others' requests leave Observed's alone
\* (Observed's rows are what Observed's requests alone make them); every
\* response Observed receives is the one it receives when the other users
\* hold no records and no objects; the userId a handler works with is the
\* one the identity provider resolved from the request's token.
C2_Isolation ==
    /\ OwnRows(db, Observed) = dbS
    /\ (Answered /\ resp.userId = Observed) => resp.body = resp.bodyS
    /\ \A r \in Slots :
          reqs[r].userId # "" =>
              reqs[r].userId = GetUserCommand(TokenOf(reqs[r].hdr)).Username

\* The operations on one file.
FileOps == {"get", "download", "versions", "delete", "share", "unshare"}

\* C3: a file operation (get, download, versions, delete, share, unshare)
\* of an authenticated user on a (userId, fileId) that has no record when
\* the handler answers is answered 404 and leaves the table unchanged.
C3_MissingRecordIs404 ==
    [][(/\ resp'.op \in FileOps
        /\ resp'.userId # ""
        /\ GetCommand(db, resp'.userId, resp'.fileId) = NoItem)
          => (resp'.status = 404 /\ db' = db)]_vars

\* C4: the s3Key of every record an upload created is
\* <userId>/<fileId>-<fileName> of that record's own userId, fileId and
\* fileName.
C4_KeyEmbedsRecordId ==
    \A i \in db :
        HasKey(i) => i.s3Key = ObjectKey(i.userId, i.fileId, i.fileName)

\* The time a record was uploaded at.
UploadTime(item) == item.uploadDate.iso

\* C5: GET /files lists the user's uploaded records by upload time
\* descending, the most recent upload first.
C5_NewestFirst ==
    (Answered /\ resp.op = "list" /\ resp.status = 200) =>
        \A i, j \in 1..Len(resp.body.files) :
            (/\ i < j
             /\ Has(resp.body.files[i], "uploadDate")
             /\ Has(resp.body.files[j], "uploadDate"))
                => UploadTime(resp.body.files[i]) >= UploadTime(resp.body.files[j])

\* The records of a list response that stand for an upload.
Listed(u) == {n \in 1..Len(resp.body.files) : resp.body.files[n].fileId = u.fileId}

\* The uploads of the user a list response answers that were answered with
\* success and not deleted since.
Kept == {u \in hist.uploaded : u.userId = resp.userId}

\* C6, as stated: a list after a successful upload (no delete in between)
\* holds exactly one record for the upload, with the uploaded file's
\* fileName and fileSize, isPublic = false and downloadCount = 0.
C6_ListedAsUploaded ==
    (Answered /\ resp.op = "list" /\ resp.status = 200) =>
        \A u \in Kept :
            /\ Cardinality(Listed(u)) = 1
            /\ \A n \in Listed(u) :
                  LET rec == resp.body.files[n]
                  IN  /\ rec.fileName = u.file.originalname
                      /\ rec.fileSize = u.file.size
                      /\ rec.isPublic = FALSE
                      /\ rec.downloadCount = 0

\* C6, amended: the list holds exactly one record for the upload, with the
\* uploaded file's fileName and fileSize; isPublic = false and
\* downloadCount = 0 when no share and no download of the file was
\* answered with success in between.
C6_ListedAsUploadedUntouched ==
    (Answered /\ resp.op = "list" /\ resp.status = 200) =>
        \A u \in Kept :
            /\ Cardinality(Listed(u)) = 1
            /\ \A n \in Listed(u) :
                  LET rec == resp.body.files[n]
                  IN  /\ rec.fileName = u.file.originalname
                      /\ rec.fileSize = u.file.size
                      /\ <<u.userId, u.fileId>> \notin hist.touched
                            => (rec.isPublic = FALSE /\ rec.downloadCount = 0)

\* A list response holds an upload that was neither shared nor downloaded.
C6_Witness ==
    /\ Answered /\ resp.op = "list" /\ resp.status = 200
    /\ \E u \in Kept : /\ <<u.userId, u.fileId>> \notin hist.touched
                        /\ Listed(u) # {}

Count(t, k) ==
    LET Item == GetCommand(t, k[1], k[2])
    IN  IF Has(Item, "downloadCount") THEN Item.downloadCount ELSE 0

Exists(t, k) == GetCommand(t, k[1], k[2]) # NoItem

\* The step answers a download of the file under k with a URL.
UrlReturned(k) ==
    /\ resp'.op = "download" /\ resp'.status = 200
    /\ <<resp'.userId, resp'.fileId>> = k

\* C9: in a sequential run a download that returns a URL raises the
\* record's downloadCount by exactly 1, no other step changes it while
\* the record exists, it never decreases, and it equals the number of
\* download responses that returned a URL for the record.
C9_CountsUrlResponses ==
    [][\A k \in Keys :
          /\ UrlReturned(k) => Count(db', k) = Count(db, k) + 1
          /\ (~UrlReturned(k) /\ Exists(db, k) /\ Exists(db', k))
                => Count(db', k) = Count(db, k)
          /\ (Exists(db, k) /\ Exists(db', k)) => Count(db', k) >= Count(db, k)
          /\ Exists(db', k) => Count(db', k) = hist'.dlOk[k]]_vars

\* The second download of an uploaded file has returned a URL.
C9_Witness ==
    /\ resp.op = "download" /\ resp.status = 200
    /\ Count(db, <<resp.userId, resp.fileId>>) = 2

\* No download of the file under k is in flight.
Settled(k) ==
    \A r \in Slots :
        ~(reqs[r].route = "download" /\ reqs[r].hdr # <<>>
          /\ <<GetUserCommand(TokenOf(reqs[r].hdr)).Username, reqs[r].fileId>> = k)

\* Two downloads of the file under k overlapped and both returned a URL.
RacedBoth(k) ==
    /\ k \in hist.raced
    /\ Settled(k)
    /\ Exists(db, k)
    /\ hist.dlOk[k] >= 2

\* C10, as stated: downloads of one file that overlap and all return a
\* URL lose an increment: the final downloadCount is smaller than the
\* initial count plus the number of those downloads.
C10_RaceLosesIncrement ==
    \A k \in Keys : RacedBoth(k) => Count(db, k) < hist.dlOk[k]

\* C10, amended: the increment is applied by the table in one atomic
\* update, so no interleaving of downloads loses one: the downloadCount
\* of an existing record equals the number of downloads that returned a
\* URL for it.
C10_NoLostIncrement ==
    \A k \in Keys : Exists(db, k) => Count(db, k) = hist.dlOk[k]

\* Two overlapping downloads of one file have both returned a URL.
C10_Witness == \E k \in Keys : RacedBoth(k)

\* The record under the key of the response sent last.
Answering(t) == GetCommand(t, resp.userId, resp.fileId)

\* C11: for an existing record, a share answered with success followed
\* at once by an unshare answered with success leaves the record with
\* isPublic = false and without shareExpiry.
C11_ShareThenUnshare ==
    [][(/\ shared # NoPrev
        /\ resp'.op = "unshare" /\ resp'.status = 200
        /\ <<resp'.userId, resp'.fileId>> = shared)
          => LET rec == GetCommand(db', resp'.userId, resp'.fileId)
             IN  /\ rec # NoItem
                 /\ rec.isPublic = FALSE
                 /\ ~Has(rec, "shareExpiry")]_vars

\* The unshare that followed a share of an uploaded file was answered.
C11_Witness ==
    /\ resp.op = "unshare" /\ resp.status = 200
    /\ shared = <<resp.userId, resp.fileId>>
    /\ resp.fileId \in hist.fileIds

LastShared(item) == IF Has(item, "lastShared") THEN <<item.lastShared>> ELSE <<>>

RECURSIVE SumSizes(_)
SumSizes(U) ==
    IF U = {} THEN 0
    ELSE LET u == CHOOSE x \in U : TRUE
         IN  u.file.size + SumSizes(U \ {u})

\* C13: after any sequence of the caller's upload, download, share,
\* unshare and delete requests, those for unknown fileIds included,
\* GET /stats returns totalFiles = the number of files the caller has
\* uploaded and not deleted, and totalSize = the sum of their sizes.
C13_StatsCountUploads ==
    (Answered /\ resp.op = "stats" /\ resp.status = 200) =>
        /\ resp.body.totalFiles = Cardinality(Kept)
        /\ resp.body.totalSize = SumSizes(Kept)

\* The step is the DeleteObjectCommand of a DELETE.
DeletesObject ==
    \E r \in Slots : /\ reqs[r].route = "delete"
                     /\ reqs[r].pc = "deleteS3"
                     /\ reqs'[r].pc = "deleteDb"

\* A share URL: signed without a response content disposition.
IsShareUrl(url) == url.ResponseContentDisposition = <<>>

C15_DownloadUrlLasts3600 ==
    /\ (resp.op = "download" /\ resp.status = 200) =>
          /\ resp.body.expiresIn = 3600
          /\ resp.body.downloadUrl.expiresIn = 3600
          /\ resp.body.downloadUrl.signedAt = now
    /\ \A url \in held :
          ~IsShareUrl(url) =>
              /\ (now < url.signedAt + 3600 * 1000 /\ url.Key \in s3)
                    => Accepts(s3, url, now)
              /\ now > url.signedAt + 3600 * 1000 => ~Accepts(s3, url, now)

\* The clock is past issue time + 3600 s of a download URL a client
\* holds, and the object is still there.
C15_Witness ==
    \E url \in held : /\ ~IsShareUrl(url)
                      /\ url.Key \in s3
                      /\ now > url.signedAt + 3600 * 1000
                      /\ ~Accepts(s3, url, now)

\* The ttl a share request asks for: expiresIn of its body, 86400 seconds
\* when the body has none.
AskedTtl(q) == IF Has(q.body, "expiresIn") THEN q.body.expiresIn ELSE 86400

\* C16: a share answered with success uses the ttl of the request body's
\* expiresIn, or 86400 seconds when it is absent: the URL is signed with
\* it, the response's expiresIn equals it, expiresAt equals the request
\* time + ttl, and the record afterwards has isPublic = true and
\* shareExpiry equal to the expiresAt returned.
C16_ShareUsesAskedTtl ==
    [][\A r \in Slots :
          (/\ reqs[r].route = "share" /\ reqs'[r].pc = "idle"
           /\ resp'.op = "share" /\ resp'.status = 200)
            => LET ttl == AskedTtl(reqs[r])
                   rec == GetCommand(db', reqs[r].userId, reqs[r].fileId)
               IN  /\ resp'.body.expiresIn = ttl
                   /\ resp'.body.shareUrl.expiresIn = ttl
                   /\ resp'.body.expiresAt = toISOString(now + ttl * 1000)
                   /\ rec # NoItem
                   /\ rec.isPublic = TRUE
                   /\ rec.shareExpiry = resp'.body.expiresAt]_vars

\* A share that asked for 60 seconds was answered with success.
C16_Witness ==
    /\ resp.op = "share" /\ resp.status = 200
    /\ resp.body.expiresIn = 60
    /\ Answering(db).isPublic = TRUE

\* C17: a request during which an external service (identity provider,
\* table, object store) is unavailable or faulting is answered 500,
\* whatever the route: register, login, verify, resend-verification and
\* token validation included.
C17_ExternalFailureIs500 == err.external => resp.status = 500

\* C18: in production every response with status 500 carries a generic
\* error message and never the raw message of the exception caught.
C18_ProductionHidesMessage ==
    (env = "production" /\ resp.status = 500 /\ err # NoErr) =>
        /\ resp.body.error # err.message
        /\ ~Has(resp.body, "message")

\* C19: an authenticated POST /files/upload that carries no file is
\* answered 400, and no step of the request writes to the table or to the
\* bucket.
C19_UploadWithoutFile ==
    [][\A r \in Slots :
          (reqs[r].route = "upload" /\ reqs[r].file = NoFile) =>
              /\ db' = db
              /\ s3' = s3
              /\ reqs[r].pc = "multer" =>
                    /\ reqs'[r].pc = "idle"
                    /\ resp'.op = "upload"
                    /\ resp'.status = 400]_vars

C19_Witness ==
    /\ resp.op = "upload"
    /\ resp.status = 400
    /\ resp.body = [error |-> "No file uploaded"]

\* The attributes an upload sets for good.
Immutable ==
    {"uploadDate", "versionId", "s3Key", "s3Location", "fileName", "fileSize",
     "mimeType"}

\* The attributes a route's update may set or remove.
Alters ==
    [download |-> {"downloadCount"},
     share    |-> {"isPublic", "lastShared", "shareExpiry"},
     unshare  |-> {"isPublic", "lastShared", "shareExpiry"}]

\* Two items agree on every attribute outside attrs, and on Immutable.
SameBut(old, new, attrs) ==
    /\ attrs \cap Immutable = {}
    /\ \A a \in ((DOMAIN old) \cup (DOMAIN new)) \ attrs :
          Has(old, a) /\ Has(new, a) /\ old[a] = new[a]

\* C20: a step of a download, share or unshare request leaves, in every
\* record that exists before and after it, uploadDate, versionId, s3Key,
\* s3Location, fileName, fileSize and mimeType as they were; a download
\* alters downloadCount only, a share or unshare alters isPublic,
\* lastShared and shareExpiry only.
C20_UploadAttributesFixed ==
    [][\A r \in Slots :
          (reqs'[r] # reqs[r] /\ reqs[r].route \in DOMAIN Alters) =>
              \A k \in Keys :
                  LET old == GetCommand(db, k[1], k[2])
                      new == GetCommand(db', k[1], k[2])
                  IN  (old # NoItem /\ new # NoItem) =>
                          SameBut(old, new, Alters[reqs[r].route])]_vars

\* An uploaded file that has been downloaded and shared.
C20_Witness ==
    \E k \in Keys :
        LET rec == GetCommand(db, k[1], k[2])
        IN  /\ rec # NoItem
            /\ Immutable \subseteq DOMAIN rec
            /\ rec.downloadCount >= 1
            /\ Has(rec, "isPublic") /\ rec.isPublic = TRUE
            /\ resp.op \in DOMAIN Alters /\ resp.status = 200

\* An object of the bucket that no record of the table names and that no
\* upload in flight is about to record.
Orphan(bucket, t, rq, k) ==
    /\ k \in bucket
    /\ \A item \in t : HasKey(item) => item.s3Key # k
    /\ \A r \in Slots : rq[r].pc = "put" => rq[r].key # k

\* C21: when the PutCommand of an upload fails, the request is answered
\* 500 and the object multer-s3 stored stays in the bucket without a
\* record; and an object without a record is never removed by a later
\* step, nor given a record.
C21_FailedPutOrphansObject ==
    [][/\ \A r \in Slots :
             (reqs[r].pc = "put" /\ reqs'[r].pc = "idle" /\ err'.external) =>
                 /\ resp'.op = "upload" /\ resp'.status = 500
                 /\ db' = db
                 /\ Orphan(s3', db', reqs', reqs[r].key)
       /\ \A k \in s3 : Orphan(s3, db, reqs, k) => Orphan(s3', db', reqs', k)]_vars

\* A DELETE was answered with success while an orphaned object exists.
C21_Witness ==
    /\ resp.op = "delete" /\ resp.status = 200
    /\ \E k \in s3 : Orphan(s3, db, reqs, k)

\* A record that names an object the bucket does not hold.
Dangling(bucket, item) == HasKey(item) /\ item.s3Key \notin bucket

\* C22 (as claimed): an upload that fails before its object is stored
\* leaves a record of the file, whose object the bucket does not hold.
C22_FailedUploadLeavesRecord ==
    [][\A r \in Slots :
          (/\ reqs[r].pc = "multer" /\ reqs[r].file # NoFile
           /\ reqs'[r].pc = "idle" /\ resp'.status = 500) =>
              \E item \in db' \ db : Dangling(s3', item)]_vars

\* C22 (amended): a step of an upload changes the table only by putting
\* one record, with the answer 200, and the record names an object the
\* bucket holds; an upload that fails, at either step, writes no record.
C22_UploadRecordsStoredObject ==
    [][\A r \in Slots :
          (reqs[r].route = "upload" /\ reqs'[r] # reqs[r]) =>
              /\ db' # db =>
                    /\ reqs'[r].pc = "idle" /\ resp'.status = 200
                    /\ \E item \in db' \ db :
                          /\ db' = db \cup {item}
                          /\ HasKey(item) /\ ~Dangling(s3', item)
              /\ (reqs'[r].pc = "idle" /\ resp'.status # 200) => db' = db]_vars

\* The store of an upload's object failed: the global error handler
\* answered, and table and bucket hold nothing of the file.
C22_Witness ==
    /\ resp.op = "upload" /\ resp.status = 500
    /\ resp.body.error = "Internal server error"
    /\ err.external
    /\ \A item \in db : ~HasKey(item)
    /\ s3 = {}

\* C23: a download or share that read the record of a file and reaches
\* its update after a DELETE of the file has removed the record and
\* answered does not create a record for the file again.
C23_DeletedStaysDeleted ==
    [][\A r \in Slots :
          LET q == reqs[r]
          IN  (/\ q.pc \in {"downloadUpdate", "shareUpdate"}
               /\ q.item # NoItem
               /\ GetCommand(db, q.userId, FileIdOf(q)) = NoItem
               /\ reqs'[r] # q) =>
                  GetCommand(db', q.userId, FileIdOf(q)) = NoItem]_vars

\* C24: a request for a protected route that carries no token, or a token
\* the user pool rejects, is answered 401 by authenticateToken; no step
\* that answers 401 and no step of a request before its token is
\* validated touches the table or the bucket or draws an object key (an
\* upload's file part is not stored); and only requests with a validated
\* token reach a handler.
C24_UnauthenticatedTouchesNothing ==
    [][/\ resp'.status = 401 => (db' = db /\ s3' = s3 /\ used' = used)
       /\ \A r \in Slots :
             /\ (reqs[r].pc \in {"idle", "auth"} /\ reqs'[r] # reqs[r]) =>
                    (db' = db /\ s3' = s3 /\ used' = used)
             /\ (reqs[r].pc = "auth" /\ ~Holder(reqs[r].hdr)
                  /\ reqs'[r] # reqs[r]) =>
                    (reqs'[r].pc = "idle" /\ resp'.status = 401)
             /\ (reqs'[r].pc \notin {"idle", "auth"}) => Holder(reqs'[r].hdr)
       /\ (Answered' /\ Protected(resp'.op) /\ ~Holder(resp'.hdr)) =>
             resp'.status = 401]_vars

\* An upload with a token the pool rejects was answered 401 while the
\* bucket and the table hold a file.
C24_Witness ==
    /\ resp.op = "upload" /\ resp.status = 401
    /\ resp.body = [error |-> "Invalid token"]
    /\ ~Holder(resp.hdr)
    /\ s3 # {} /\ db # {}

\* C25: no step of a DELETE leaves an object of the bucket without its
\* record; a DELETE whose DeleteCommand fails is answered 500 and leaves
\* the record, whose object is gone; a DELETE of a file whose object is
\* gone goes on past its DeleteObjectCommand and, unless the table fails,
\* removes the record and answers 200.
C25_DeleteObjectThenRecord ==
    [][\A r \in Slots :
          LET q   == reqs[r]
              rec == GetCommand(db', q.userId, FileIdOf(q))
          IN  (q.route = "delete" /\ reqs'[r] # q) =>
                  /\ \A k \in s3' :
                        Orphan(s3', db', reqs', k) => Orphan(s3, db, reqs, k)
                  /\ (q.pc = "deleteDb" /\ err'.external) =>
                        /\ resp'.status = 500
                        /\ rec # NoItem /\ Dangling(s3', rec)
                  /\ (q.pc = "deleteS3" /\ Dangling(s3, q.item) /\ ~err'.external) =>
                        /\ reqs'[r].pc = "deleteDb"
                        /\ db' = db /\ s3' = s3
                  /\ (q.pc = "deleteDb" /\ ~err'.external) =>
                        /\ resp'.op = "delete" /\ resp'.status = 200
                        /\ rec = NoItem]_vars

\* A DELETE has read the record a failed DELETE left, whose object is
\* gone.
C25_Witness ==
    \E r \in Slots :
        /\ reqs[r].pc = "deleteS3"
        /\ Dangling(s3, reqs[r].item)
        /\ GetCommand(db, reqs[r].userId, FileIdOf(reqs[r])) # NoItem

\* C26: both backend variants answer a request with the same status and
\* have the same effects on table and bucket, whatever the services
\* return; in particular, when server.js answers the metadata write of
\* an upload, server-1.js answers the same request in the same state with
\* the same status and leaves the same table.
C26_VariantsAgree ==
    [][\A r \in Slots :
          (reqs[r].pc = "put" /\ reqs'[r].pc = "idle" /\ ~err'.external) =>
              \E id \in UUIDs \ used :
                  LET other == UploadAnswer("v2", db, fileData(reqs[r], id, now))
                  IN  /\ other.status = resp'.status
                      /\ other.table = db']_vars

(***************************************************************************)
(* The page.                                                               *)
(***************************************************************************)
\* C27: once the deletions the signed-in page has started are all settled,
\* the list shows no file whose DELETE succeeded and every file whose DELETE
\* failed.
C27_SettledDeletionsShowRight ==
    (ui.token # NoToken /\ Pending("delete") = {}) =>
        \A f \in UUIDs :
            /\ ui.settled[f] = "ok" => f \notin ui.files
            /\ ui.settled[f] = "failed" => f \in ui.files

\* C28: while the token is null the list of files is empty.
C28_NoTokenNoFiles == ui.token = NoToken => ui.files = {}

\* C29: no resend request is issued while one is in flight or the countdown
\* is above 0, and the control stays disabled meanwhile; a successful resend
\* starts the countdown at 60, a failed one re-enables the control at once;
\* the countdown only goes down by 1; the control is re-enabled only with the
\* countdown at 0, and a disabled control is eventually re-enabled.
C29_ResendCooldown ==
    /\ []((Pending("resend") # {} \/ ui.countdown > 0) => ui.resending)
    /\ [][/\ (ui'.calls \ ui.calls) \cap Pending("resend")' # {} =>
               (Pending("resend") = {} /\ ui.countdown = 0 /\ ~ui.resending)
          /\ (\E c \in Pending("resend") : c \notin ui'.calls) =>
               \/ ui'.countdown = ResendCooldown /\ ui'.resending
               \/ ui'.countdown = 0 /\ ~ui'.resending
          /\ ui'.countdown # ui.countdown =>
               \/ ui'.countdown = ResendCooldown /\ Pending("resend") # {}
               \/ ui'.countdown = ui.countdown - 1
          /\ (ui.resending /\ ~ui'.resending) => ui'.countdown = 0]_vars
    /\ (ui.resending ~> ~ui.resending)

\* C29: a countdown started by a successful resend has come down to 1 with
\* the control still disabled.
C29_Witness ==
    ui.view = "verify" /\ ui.countdown = 1 /\ ui.resending /\ Pending("resend") = {}

\* C30: when the login is rejected because the account is not confirmed, the
\* page moves to the verify view, whichever variant serves it.
C30_UnconfirmedLoginOpensVerify ==
    [][(\E c \in Pending("login") :
            /\ c \notin ui'.calls
            /\ ui'.cognito = "UserNotConfirmedException") =>
        ui'.view = "verify"]_vars

====
